---- MODULE Spec2Model ----
(***************************************************************************)
(* joplin_to_hexo.py: export of Joplin notes to Hexo posts.                *)
(*                                                                         *)
(* Strings whose content the code inspects are sequences of characters     *)
(* (the --tag argument, resource file names and titles).  A note body is a *)
(* sequence of markdown tokens, each standing for a piece of text:         *)
(*    img  "![x]"     lnk  "[x]"     nl  "\n"                              *)
(*    ref  "(:/<id>)" with <id> 32 lowercase hex characters                *)
(*    new  "(/resources/<id><ext>)"                                        *)
(* Front-matter dates are left out: no statement below reads them.         *)
(* File writes and makedirs are taken to succeed; shutil.rmtree and every  *)
(* call of the Joplin API may fail.                                        *)
(***************************************************************************)
EXTENDS Integers, Sequences, FiniteSets, TLC

\* ---------------------------------------------------------------- bounds
MaxBodyLen == 4
MaxNameLen == 3
NumNotebooks == 3
MaxRuns == 2

VARIABLES
  tag_arg,          \* args.tag
  upstream_notes,   \* the notes held by Joplin (with their tag ids)
  resources,        \* the resource metadata held by Joplin: id -> [filename, title]
  posts_dir,        \* <output>/source/_posts : [exists, files]
  resources_dir,    \* <output>/source/resources : [exists, files]
  pc,               \* position in main / process_note / get_category_hierarchy
  outcome,          \* how the run ended ("running" while it has not)
  run,              \* number of the current invocation of main
  target_tag_name,  \* main's local, line 232
  notes_to_process, \* main's local
  notebooks_map,    \* main's local, line 285
  note_idx,         \* position of the for loop of line 299
  new_body,         \* process_note's local
  resource_links,   \* process_note's local, line 145
  res_idx,          \* position of the for loop of line 150
  resource_meta,    \* process_note's local, line 152 (last metadata fetched)
  current_id,       \* get_category_hierarchy's local
  categories,       \* get_category_hierarchy's local
  calls,            \* history: API operations called in this run
  downloads,        \* history: resource files written, [run, id, ext]
  iter_log,         \* history: what each iteration of line 150 did, this note
  dirs_at_start     \* history: the two directories as the run found them

vars == <<tag_arg, upstream_notes, resources, posts_dir, resources_dir, pc,
          outcome, run, target_tag_name, notes_to_process, notebooks_map,
          note_idx, new_body, resource_links, res_idx, resource_meta,
          current_id, categories, calls, downloads, iter_log, dirs_at_start>>

inputVars == <<tag_arg, upstream_notes, resources>>
fsVars == <<posts_dir, resources_dir>>
mainVars == <<target_tag_name, notes_to_process, notebooks_map>>
noteVars == <<new_body, resource_links, res_idx, resource_meta>>
walkVars == <<current_id, categories>>

\* ------------------------------------------------------------ helpers
Min(S) == CHOOSE x \in S : \A y \in S : x <= y

Max(S) == CHOOSE x \in S : \A y \in S : x >= y

Range(s) == {s[i] : i \in DOMAIN s}

SeqsUpTo(S, n) == UNION {[1..m -> S] : m \in 0..n}

\* ------------------------------------------------------- body tokens
Tok(k, id, ext) == [k |-> k, id |-> id, ext |-> ext]

ImgOpen == Tok("img", "", <<>>)

LnkOpen == Tok("lnk", "", <<>>)

Newline == Tok("nl", "", <<>>)

\* old_link = f"(:/{resource_id})"
Ref(id) == Tok("ref", id, <<>>)

\* new_link = f"(/resources/{resource_id}{extension})"
NewLink(id, ext) == Tok("new", id, ext)

ResourceIds == {"r1", "r2"}

BodyTokens == {ImgOpen, LnkOpen, Newline} \cup {Ref(r) : r \in ResourceIds}

\* re: !\[.*?\]\(:\/([a-f0-9]{32})\) tried at the "![" of token i: the first
\* reference that directly follows a "]" with no newline in between (.*? is
\* lazy and does not match "\n"); 0 when the pattern does not match there.
MatchEnd(body, i) ==
  LET ends == {j \in (i + 1)..Len(body) :
                 /\ body[j].k = "ref"
                 /\ body[j - 1].k \in {"img", "lnk"}
                 /\ \A m \in (i + 1)..(j - 1) : body[m].k # "nl"}
  IN IF ends = {} THEN 0 ELSE Min(ends)

RECURSIVE FindAllFrom(_, _)
FindAllFrom(body, p) ==
  LET starts == {i \in p..Len(body) : body[i].k = "img" /\ MatchEnd(body, i) # 0}
  IN IF starts = {} THEN <<>>
     ELSE LET j == MatchEnd(body, Min(starts))
          IN <<body[j].id>> \o FindAllFrom(body, j + 1)

\* A plausible slip: every internal reference is taken, image or not.
FindAll_AnyRef(body) ==
  LET RECURSIVE Ids(_)
      Ids(p) == IF p > Len(body) THEN <<>>
                ELSE IF body[p].k = "ref" THEN <<body[p].id>> \o Ids(p + 1)
                ELSE Ids(p + 1)
  IN Ids(1)

\* re.findall(r'!\[.*?\]\(:\/([a-f0-9]{32})\)', note.body): leftmost matches,
\* not overlapping, the captured ids in order.
FindAll(body) == FindAllFrom(body, 1)

\* A plausible slip: only the first occurrence is replaced (count=1).
Replace_FirstOnly(body, id, ext) ==
  LET hits == {i \in DOMAIN body : body[i] = Ref(id)}
  IN [i \in DOMAIN body |->
        IF hits # {} /\ i = Min(hits) THEN NewLink(id, ext) ELSE body[i]]

\* new_body.replace(old_link, new_link): every occurrence.
Replace(body, id, ext) ==
  [i \in DOMAIN body |-> IF body[i] = Ref(id) THEN NewLink(id, ext) ELSE body[i]]

\* ------------------------------------------------- names and extensions
NameChars == {"p", ".", "/"}

Names == SeqsUpTo(NameChars, MaxNameLen)

PngExt == <<".", "p", "n", "g">>

\* str.rfind, 1-based, 0 when absent.
LastIndexOf(s, c) ==
  LET at == {i \in DOMAIN s : s[i] = c} IN IF at = {} THEN 0 ELSE Max(at)

\* os.path.splitext(p)[1] (genericpath._splitext): from the last dot, when it
\* comes after the last separator and some character other than a dot stands
\* between the separator and it.
Splitext(p) ==
  LET sepIndex == LastIndexOf(p, "/")
      dotIndex == LastIndexOf(p, ".")
  IN IF /\ dotIndex > sepIndex
        /\ \E k \in (sepIndex + 1)..(dotIndex - 1) : p[k] # "."
     THEN SubSeq(p, dotIndex, Len(p))
     ELSE <<>>

\* A plausible slip: the title is never consulted.
OriginalFilename_NoTitle(meta) == meta.filename

\* resource_meta.filename or resource_meta.title or ""
OriginalFilename(meta) ==
  IF meta.filename # <<>> THEN meta.filename
  ELSE IF meta.title # <<>> THEN meta.title
  ELSE <<>>

\* lines 154-156
Extension(meta) ==
  LET extension == Splitext(OriginalFilename(meta))
  IN IF extension = <<>> THEN PngExt ELSE extension

NoMeta == [filename |-> <<>>, title |-> <<>>]

\* ------------------------------------------------------ the file system
Dir(exists, files) == [exists |-> exists, files |-> files]

\* os.path.exists(local_image_path) missing: a plausible slip.
FileExists_Never(dir, id, ext) == FALSE

\* os.path.exists(os.path.join(resources_dir, f"{resource_id}{extension}"))
FileExists(dir, id, ext) == \E f \in dir.files : f.id = id /\ f.ext = ext

PostFile(name, r, front, body) ==
  [name |-> name, run |-> r, front |-> front, body |-> body]

\* open(markdown_filepath, 'w'): create or overwrite.
WriteFile(dir, file) ==
  Dir(dir.exists, {f \in dir.files : f.name # file.name} \cup {file})

ResFile(id, ext, r) == [id |-> id, ext |-> ext, run |-> r]

\* ------------------------------------------------------------ notebooks
NoId == 0

NotebookIds == 1..NumNotebooks

DanglingId == NumNotebooks + 1

NotebookTitle(i) == <<"title", i>>

Notebook(i, parent) == [title |-> NotebookTitle(i), parent_id |-> parent]

\* The list of titles cannot grow without end in the model: past this length
\* (never reached when the parent links have no cycle) it is kept as it is.
MaxCategories == NumNotebooks + 1

\* A plausible slip: append instead of insert(0, ...).
Prepend_Append(cats, title) == Append(cats, title)

\* categories.insert(0, notebook.title)
Prepend(cats, title) == <<title>> \o cats

\* The notebooks held by Joplin in a run of main: a chain, 1 the root.
UpstreamNotebooks == [i \in NotebookIds |-> Notebook(i, i - 1)]

\* ------------------------------------------------------------ the notes
Note(id, title, body, parent, tags) ==
  [id |-> id, title |-> title, body |-> body, parent_id |-> parent, tags |-> tags]

CurrentNote == notes_to_process[note_idx]

\* A plausible slip: only the title is tested.
SkipNote_TitleOnly(note) == note.title = ""

\* line 137: not note.title or not note.body
SkipNote(note) == note.title = "" \/ note.body = <<>>

LogEntry(id, result, ext) == [id |-> id, result |-> result, ext |-> ext]

\* ------------------------------------------------------- process_note
\* lines 137-148
NoteBegin ==
  /\ pc = "notes"
  /\ note_idx <= Len(notes_to_process)
  /\ iter_log' = <<>>
  /\ IF SkipNote(CurrentNote)
     THEN /\ note_idx' = note_idx + 1
          /\ UNCHANGED <<pc, noteVars>>
     ELSE /\ new_body' = CurrentNote.body
          /\ resource_links' = FindAll(CurrentNote.body)
          /\ res_idx' = 1
          /\ pc' = "resources"
          /\ UNCHANGED <<note_idx, resource_meta>>
  /\ UNCHANGED <<inputVars, fsVars, mainVars, walkVars, outcome, run, calls,
                 downloads, dirs_at_start>>

\* A plausible slip: no try/except, the exception leaves process_note and main.
ResourceFailed_Propagates(id, result, ext) ==
  /\ iter_log' = Append(iter_log, LogEntry(id, result, ext))
  /\ pc' = "done"
  /\ outcome' = "crashed"
  /\ UNCHANGED <<res_idx, new_body, fsVars, downloads>>

\* lines 171-172: the exception is caught and printed, the loop goes on.
ResourceFailed(id, result, ext) ==
  /\ iter_log' = Append(iter_log, LogEntry(id, result, ext))
  /\ res_idx' = res_idx + 1
  /\ UNCHANGED <<pc, outcome, new_body, fsVars, downloads>>

\* lines 167-170 after the file is there (found, or just written).
ResourceDone(id, result, ext) ==
  /\ iter_log' = Append(iter_log, LogEntry(id, result, ext))
  /\ res_idx' = res_idx + 1
  /\ new_body' = Replace(new_body, id, ext)
  /\ UNCHANGED <<pc, outcome, posts_dir>>

\* lines 150-172: one iteration of the loop over resource_links.
ResourceStep ==
  /\ pc = "resources"
  /\ res_idx <= Len(resource_links)
  /\ LET resource_id == resource_links[res_idx]
         meta == resources[resource_id]
         extension == Extension(meta)
     IN \/ /\ calls' = calls \cup {"get_resource"}
           /\ UNCHANGED resource_meta
           /\ ResourceFailed(resource_id, "meta_failed", <<>>)
        \/ /\ resource_meta' = meta
           /\ IF FileExists(resources_dir, resource_id, extension)
              THEN /\ calls' = calls \cup {"get_resource"}
                   /\ ResourceDone(resource_id, "cached", extension)
                   /\ UNCHANGED <<resources_dir, downloads>>
              ELSE /\ calls' = calls \cup {"get_resource", "get_resource_file"}
                   /\ \/ ResourceFailed(resource_id, "download_failed", extension)
                      \/ /\ ResourceDone(resource_id, "downloaded", extension)
                         /\ resources_dir' =
                              Dir(resources_dir.exists,
                                  resources_dir.files
                                    \cup {ResFile(resource_id, extension, run)})
                         /\ downloads' =
                              downloads \cup {ResFile(resource_id, extension, run)}
  /\ UNCHANGED <<inputVars, mainVars, note_idx, resource_links, walkVars, run,
                 dirs_at_start>>

\* lines 175-192: the loop is over; dates, then the call of line 192.
FrontMatter ==
  /\ pc = "resources"
  /\ res_idx > Len(resource_links)
  /\ categories' = <<>>
  /\ IF CurrentNote.parent_id # NoId
     THEN /\ current_id' = CurrentNote.parent_id
          /\ pc' = "walk"
     ELSE /\ current_id' = NoId
          /\ pc' = "write"
  /\ UNCHANGED <<inputVars, fsVars, mainVars, note_idx, noteVars, outcome, run,
                 calls, downloads, iter_log, dirs_at_start>>

\* line 108
WalkCondition == current_id # NoId /\ current_id \in DOMAIN notebooks_map

\* lines 108-112: one iteration of get_category_hierarchy's loop.
WalkStep ==
  /\ pc = "walk"
  /\ WalkCondition
  /\ categories' = IF Len(categories) < MaxCategories
                   THEN Prepend(categories, notebooks_map[current_id].title)
                   ELSE categories
  /\ current_id' = notebooks_map[current_id].parent_id
  /\ UNCHANGED <<inputVars, fsVars, mainVars, note_idx, noteVars, pc, outcome,
                 run, calls, downloads, iter_log, dirs_at_start>>

\* lines 108, 113: the loop condition is false, categories is returned.
WalkEnd ==
  /\ pc = "walk"
  /\ ~WalkCondition
  /\ pc' = "write"
  /\ UNCHANGED <<inputVars, fsVars, mainVars, note_idx, noteVars, walkVars,
                 outcome, run, calls, downloads, iter_log, dirs_at_start>>

\* lines 185-194: "categories" is a key only for a non-empty path.
FrontMatterDict(note, cats) ==
  [title |-> note.title,
   has_categories |-> (note.parent_id # NoId /\ cats # <<>>),
   categories |-> cats]

\* lines 193-213: the post <note.id>.md is written; process_note returns.
WriteNote ==
  /\ pc = "write"
  /\ posts_dir' = WriteFile(posts_dir,
                    PostFile(CurrentNote.id, run,
                             FrontMatterDict(CurrentNote, categories), new_body))
  /\ note_idx' = note_idx + 1
  /\ pc' = "notes"
  /\ new_body' = <<>>
  /\ resource_links' = <<>>
  /\ res_idx' = 1
  /\ resource_meta' = NoMeta
  /\ current_id' = NoId
  /\ categories' = <<>>
  /\ UNCHANGED <<inputVars, resources_dir, mainVars, outcome, run, calls,
                 downloads, iter_log, dirs_at_start>>

ProcessNote ==
  \/ NoteBegin
  \/ ResourceStep
  \/ FrontMatter
  \/ WalkStep
  \/ WalkEnd
  \/ WriteNote

\* ------------------------------------------------------------------ main
\* str.upper on the characters a tag argument is made of here.
UpperChar(c) ==
  CASE c = "a" -> "A"
    [] c = "l" -> "L"
    [] c = "b" -> "B"
    [] OTHER -> c

Upper(s) == [i \in DOMAIN s |-> UpperChar(s[i])]

SentinelAll == <<"A", "L", "L">>

\* Optional[str]: None, or the string.
NoneName == [none |-> TRUE, name |-> <<>>]

SomeName(s) == [none |-> FALSE, name |-> s]

\* A plausible slip: the sentinel is compared as typed.
TargetTagName_CaseSensitive(arg) ==
  IF arg = SentinelAll THEN NoneName ELSE SomeName(arg)

\* line 232: None if args.tag.upper() == 'ALL' else args.tag
TargetTagName(arg) ==
  IF Upper(arg) = SentinelAll THEN NoneName ELSE SomeName(arg)

\* line 255: if target_tag_name (None and "" are both false)
Truthy(t) == ~t.none /\ t.name # <<>>

\* The tags held by Joplin.
UpstreamTags ==
  <<[id |-> "t1", title |-> <<"b">>], [id |-> "t2", title |-> <<"a", "l", "l">>]>>

\* line 259: next((tag for tag in tags if tag.title == target_tag_name), None);
\* 0 stands for None.
TargetTagIndex(tags, name) ==
  LET hits == {i \in DOMAIN tags : tags[i].title = name}
  IN IF hits = {} THEN 0 ELSE Min(hits)

\* api.get_all_notes(tag_id=...): the notes that carry the tag, in order.
NotesOfTag(notes, tag_id) == SelectSeq(notes, LAMBDA n : tag_id \in n.tags)

\* A return of main before the notes are processed.
Abort(reason) ==
  /\ pc' = "done"
  /\ outcome' = reason

\* line 232 (argparse has run)
ParseArgs ==
  /\ pc = "parse"
  /\ target_tag_name' = TargetTagName(tag_arg)
  /\ pc' = "token"
  /\ UNCHANGED <<inputVars, fsVars, notes_to_process, notebooks_map, note_idx,
                 noteVars, walkVars, outcome, run, calls, downloads, iter_log,
                 dirs_at_start>>

\* lines 235-238: get_joplin_token returns a non-empty token (it asks until
\* it has one).
GetToken ==
  /\ pc = "token"
  /\ pc' = "connect"
  /\ UNCHANGED <<inputVars, fsVars, mainVars, note_idx, noteVars, walkVars,
                 outcome, run, calls, downloads, iter_log, dirs_at_start>>

\* lines 242-249
Connect ==
  /\ pc = "connect"
  /\ calls' = calls \cup {"ping"}
  /\ \/ /\ pc' = "select"
        /\ UNCHANGED outcome
     \/ Abort("connect_error")
  /\ UNCHANGED <<inputVars, fsVars, mainVars, note_idx, noteVars, walkVars,
                 run, downloads, iter_log, dirs_at_start>>

\* lines 276-280: nothing to do without notes.
GotNotes(notes) ==
  /\ notes_to_process' = notes
  /\ IF notes = <<>> THEN Abort("no_notes")
     ELSE pc' = "notebooks" /\ UNCHANGED outcome

\* lines 255-280
SelectNotes ==
  /\ pc = "select"
  /\ IF Truthy(target_tag_name)
     THEN LET target_tag == TargetTagIndex(UpstreamTags, target_tag_name.name)
          IN \/ /\ calls' = calls \cup {"get_all_tags"}
                /\ Abort("fetch_error")
                /\ UNCHANGED notes_to_process
             \/ /\ target_tag = 0
                /\ calls' = calls \cup {"get_all_tags"}
                /\ Abort("tag_not_found")
                /\ UNCHANGED notes_to_process
             \/ /\ target_tag # 0
                /\ calls' = calls \cup {"get_all_tags", "get_all_notes(tag_id)"}
                /\ \/ Abort("fetch_error") /\ UNCHANGED notes_to_process
                   \/ GotNotes(NotesOfTag(upstream_notes, UpstreamTags[target_tag].id))
     ELSE /\ calls' = calls \cup {"get_all_notes()"}
          /\ \/ Abort("fetch_error") /\ UNCHANGED notes_to_process
             \/ GotNotes(upstream_notes)
  /\ UNCHANGED <<inputVars, fsVars, target_tag_name, notebooks_map, note_idx,
                 noteVars, walkVars, run, downloads, iter_log, dirs_at_start>>

\* lines 284-285: the call is not in a try; an exception ends the program.
FetchNotebooks ==
  /\ pc = "notebooks"
  /\ calls' = calls \cup {"get_all_notebooks"}
  /\ \/ Abort("notebooks_error") /\ UNCHANGED notebooks_map
     \/ /\ notebooks_map' = UpstreamNotebooks
        /\ pc' = "clean"
        /\ UNCHANGED outcome
  /\ UNCHANGED <<inputVars, fsVars, target_tag_name, notes_to_process, note_idx,
                 noteVars, walkVars, run, downloads, iter_log, dirs_at_start>>

\* shutil.rmtree(dir_path) succeeded.
Removed(dir) == Dir(FALSE, {})

\* A plausible slip: rmtree is left out, only makedirs(exist_ok=True) runs.
Recreated_KeepFiles(dir) == Dir(TRUE, dir.files)

\* rmtree, then os.makedirs(dir, exist_ok=True): the directory is there, empty.
Recreated(dir) == Dir(TRUE, {})

\* lines 288-292 with clean_output_directories (62-80): a failing rmtree
\* leaves its directory as it is and nothing is recreated.
CleanDirs ==
  /\ pc = "clean"
  /\ \E posts_fails, resources_fails \in BOOLEAN :
       IF posts_dir.exists /\ posts_fails
       THEN /\ Abort("clean_failed")
            /\ UNCHANGED <<fsVars, note_idx>>
       ELSE IF resources_dir.exists /\ resources_fails
       THEN /\ Abort("clean_failed")
            /\ posts_dir' = Removed(posts_dir)
            /\ UNCHANGED <<resources_dir, note_idx>>
       ELSE /\ posts_dir' = Recreated(posts_dir)
            /\ resources_dir' = Recreated(resources_dir)
            /\ pc' = "notes"
            /\ note_idx' = 1
            /\ UNCHANGED outcome
  /\ UNCHANGED <<inputVars, mainVars, noteVars, walkVars, run, calls, downloads,
                 iter_log, dirs_at_start>>

\* lines 299-302: the loop over the notes is over.
Finish ==
  /\ pc = "notes"
  /\ note_idx > Len(notes_to_process)
  /\ Abort("finished")
  /\ UNCHANGED <<inputVars, fsVars, mainVars, note_idx, noteVars, walkVars, run,
                 calls, downloads, iter_log, dirs_at_start>>

\* main is invoked again, with the same arguments, on what the run before left.
StartRun ==
  /\ pc = "done"
  /\ run < MaxRuns
  /\ run' = run + 1
  /\ pc' = "parse"
  /\ outcome' = "running"
  /\ target_tag_name' = NoneName
  /\ notes_to_process' = <<>>
  /\ notebooks_map' = <<>>
  /\ note_idx' = 1
  /\ calls' = {}
  /\ iter_log' = <<>>
  /\ dirs_at_start' = <<posts_dir, resources_dir>>
  /\ UNCHANGED <<inputVars, fsVars, noteVars, walkVars, downloads>>

\* ------------------------------------------------------- specifications
TagArgs ==
  {<<"A", "L", "L">>, <<"a", "l", "l">>, <<"A", "l", "l">>, <<"b">>, <<"B">>, <<>>}

\* Metadata as Joplin usually holds it: a file name with an extension for r1,
\* neither file name nor title for r2.
PlainResources ==
  [r \in ResourceIds |->
     IF r = "r1" THEN [filename |-> <<"p", ".", "p">>, title |-> <<>>] ELSE NoMeta]

MainBodies ==
  {<<>>, <<ImgOpen, Ref("r1")>>, <<ImgOpen, Ref("r1"), ImgOpen, Ref("r2")>>}

\* What an earlier export, or the user, left in the two directories.
StalePosts ==
  Dir(TRUE, {PostFile("n1", 0, [title |-> "T", has_categories |-> FALSE,
                                categories |-> <<>>], <<>>)})

StaleResources == Dir(TRUE, {ResFile("r1", <<".", "p">>, 0)})

NoDir == Dir(FALSE, {})

\* The state in which process_note is first called in a run over `notes`.
AtFirstNote(notes) ==
  /\ tag_arg = SentinelAll
  /\ upstream_notes = notes
  /\ posts_dir = Dir(TRUE, {})
  /\ resources_dir = Dir(TRUE, {})
  /\ pc = "notes"
  /\ outcome = "running"
  /\ run = 1
  /\ target_tag_name = NoneName
  /\ notes_to_process = notes
  /\ notebooks_map = UpstreamNotebooks
  /\ note_idx = 1
  /\ new_body = <<>>
  /\ resource_links = <<>>
  /\ res_idx = 1
  /\ resource_meta = NoMeta
  /\ current_id = NoId
  /\ categories = <<>>
  /\ calls = {"ping", "get_all_notes()", "get_all_notebooks"}
  /\ downloads = {}
  /\ iter_log = <<>>
  /\ dirs_at_start = <<NoDir, NoDir>>

\* main is started: any tag argument, two notes, the directories absent or
\* holding files of an earlier export.
Init ==
  /\ tag_arg \in TagArgs
  /\ \E t1, t2 \in {"", "T"}, b1, b2 \in MainBodies, g1, g2 \in {{}, {"t1"}} :
       upstream_notes = <<Note("n1", t1, b1, NumNotebooks, g1),
                          Note("n2", t2, b2, NoId, g2)>>
  /\ resources = PlainResources
  /\ \E dirs \in {<<NoDir, NoDir>>, <<StalePosts, StaleResources>>} :
       posts_dir = dirs[1] /\ resources_dir = dirs[2]
  /\ dirs_at_start = <<posts_dir, resources_dir>>
  /\ pc = "parse"
  /\ outcome = "running"
  /\ run = 1
  /\ target_tag_name = NoneName
  /\ notes_to_process = <<>>
  /\ notebooks_map = <<>>
  /\ note_idx = 1
  /\ new_body = <<>>
  /\ resource_links = <<>>
  /\ res_idx = 1
  /\ resource_meta = NoMeta
  /\ current_id = NoId
  /\ categories = <<>>
  /\ calls = {}
  /\ downloads = {}
  /\ iter_log = <<>>

Next ==
  \/ ParseArgs
  \/ GetToken
  \/ Connect
  \/ SelectNotes
  \/ FetchNotebooks
  \/ CleanDirs
  \/ ProcessNote
  \/ Finish
  \/ StartRun

Spec == Init /\ [][Next]_vars

\* process_note on one note: every body of up to MaxBodyLen tokens with plain
\* metadata, and every file name and title of r1 with a one-image body.
NoteInit ==
  /\ \/ /\ resources = PlainResources
        /\ \E body \in SeqsUpTo(BodyTokens, MaxBodyLen) :
             AtFirstNote(<<Note("n1", "T", body, NumNotebooks, {})>>)
     \/ /\ \E filename, title \in Names :
             resources = [r \in ResourceIds |->
                            IF r = "r1" THEN [filename |-> filename, title |-> title]
                            ELSE NoMeta]
        /\ \E parent \in {NoId, NumNotebooks} :
             AtFirstNote(<<Note("n1", "T", <<ImgOpen, Ref("r1")>>, parent, {})>>)

NoteSpec == NoteInit /\ [][ProcessNote]_vars

\* get_category_hierarchy on every notebook map over NotebookIds (a parent is
\* no notebook, a notebook, or an id the map does not hold) and every start.
ParentIds == {NoId} \cup NotebookIds \cup {DanglingId}

HierInit ==
  /\ \E parents \in [NotebookIds -> ParentIds], start \in ParentIds :
       /\ notebooks_map = [i \in NotebookIds |-> Notebook(i, parents[i])]
       /\ upstream_notes = <<Note("n1", "T", <<Newline>>, start, {})>>
       /\ current_id = start
  /\ tag_arg = SentinelAll
  /\ resources = PlainResources
  /\ posts_dir = Dir(TRUE, {})
  /\ resources_dir = Dir(TRUE, {})
  /\ pc = "walk"
  /\ outcome = "running"
  /\ run = 1
  /\ target_tag_name = NoneName
  /\ notes_to_process = upstream_notes
  /\ note_idx = 1
  /\ new_body = <<Newline>>
  /\ resource_links = <<>>
  /\ res_idx = 1
  /\ resource_meta = NoMeta
  /\ categories = <<>>
  /\ calls = {"ping", "get_all_notes()", "get_all_notebooks"}
  /\ downloads = {}
  /\ iter_log = <<>>
  /\ dirs_at_start = <<NoDir, NoDir>>

GetCategoryHierarchy ==
  \/ WalkStep
  \/ WalkEnd

\* The interpreter keeps executing the loop: a step that can be taken is taken.
HierSpec == HierInit /\ [][GetCategoryHierarchy]_vars /\ WF_vars(GetCategoryHierarchy)

\* ============================================================ properties
\* process_note has just returned for the note before note_idx.
Returned == pc = "notes" /\ note_idx > 1

LastNote == notes_to_process[note_idx - 1]

Written(note) == note.title # "" /\ note.body # <<>>

PostsNamed(id) == {f \in posts_dir.files : f.name = id /\ f.run = run}

ResourceFilePresent(id, ext) ==
  \E g \in resources_dir.files : g.id = id /\ g.ext = ext

Succeeded(e) == e.result \in {"cached", "downloaded"}

Failed(e) == e.result \in {"meta_failed", "download_failed"}

\* An iteration of the loop over resource_links is taken by this step.
IterationTaken == pc = "resources" /\ Len(iter_log') = Len(iter_log) + 1

LastEntry == iter_log'[Len(iter_log')]

\* The text ![..](:/<id>) occurs in the body: an "![", later on the same line
\* a "]" directly followed by the reference.
InImageSyntax(body, id) ==
  \E i, j \in DOMAIN body :
    /\ i < j
    /\ body[i].k = "img"
    /\ body[j] = Ref(id)
    /\ body[j - 1].k \in {"img", "lnk"}
    /\ \A m \in (i + 1)..(j - 1) : body[m].k # "nl"

\* C1: when process_note has returned, for every resource id of an image
\* reference whose iteration succeeded, the written body holds no (:/<id>):
\* each occurrence, repeats included, is now (/resources/<id><ext>) and the
\* file <id><ext> is in the resources directory.
C1_SucceededReferencesRewritten ==
  Returned =>
    \A k \in DOMAIN iter_log :
      Succeeded(iter_log[k]) =>
        LET id == iter_log[k].id
        IN /\ ResourceFilePresent(id, iter_log[k].ext)
           /\ PostsNamed(LastNote.id) # {}
           /\ \A f \in PostsNamed(LastNote.id) :
                /\ Ref(id) \notin Range(f.body)
                /\ \A i \in DOMAIN LastNote.body :
                     LastNote.body[i] = Ref(id) =>
                       /\ f.body[i].k = "new"
                       /\ f.body[i].id = id
                       /\ ResourceFilePresent(id, f.body[i].ext)

\* C1's case: a resource referenced twice, processed with success, written.
C1_Witness ==
  /\ Returned
  /\ Cardinality({i \in DOMAIN LastNote.body : LastNote.body[i] = Ref("r1")}) >= 2
  /\ \E k \in DOMAIN iter_log : iter_log[k].id = "r1" /\ iter_log[k].result = "downloaded"
  /\ PostsNamed(LastNote.id) # {}

\* C2: for every note process_note has returned for, <noteId>.md is in the
\* posts directory exactly when the note has a title and a body; there is one
\* file per such note (same titles or not), no exception leaves process_note,
\* and a run that reached the notes ends only after the last of them.
C2_PostIffTitleAndBody ==
  /\ outcome # "crashed"
  /\ (pc \in {"notes", "resources", "walk", "write"} \/ outcome = "finished") =>
       /\ \A k \in 1..(note_idx - 1) :
            PostsNamed(notes_to_process[k].id) # {} <=> Written(notes_to_process[k])
       /\ Cardinality({f \in posts_dir.files : f.run = run}) =
            Cardinality({k \in 1..(note_idx - 1) : Written(notes_to_process[k])})
  /\ outcome = "finished" => note_idx = Len(notes_to_process) + 1

\* C2's case: the first note was skipped without a file, the note after it
\* was processed and written, and the run is over.
C2_Witness ==
  /\ outcome = "finished"
  /\ Len(notes_to_process) = 2
  /\ ~Written(notes_to_process[1])
  /\ PostsNamed(notes_to_process[1].id) = {}
  /\ PostsNamed(notes_to_process[2].id) # {}

Processing == pc \in {"notes", "resources", "walk", "write"} \/ outcome = "finished"

NotesCalls == {"get_all_notes()", "get_all_notes(tag_id)"}

AllFromThisRun ==
  /\ \A f \in posts_dir.files : f.run = run
  /\ \A g \in resources_dir.files : g.run = run

C5_Original ==
  \A d1, d2 \in downloads : (d1.id = d2.id /\ d1.ext = d2.ext) => d1.run = d2.run

\* C5, amended: the content is fetched only when no file <id><ext> is in the
\* resources directory, and never when one is; so within a run a file the run
\* has written is still there and is not downloaded again.
C5_FetchedOnlyWhenAbsent ==
  /\ [][IterationTaken =>
          LET present == ResourceFilePresent(LastEntry.id, LastEntry.ext)
          IN /\ LastEntry.result \in {"downloaded", "download_failed"} => ~present
             /\ LastEntry.result = "cached" =>
                  present /\ resources_dir' = resources_dir /\ downloads' = downloads
             /\ "get_resource_file" \in calls' \ calls => ~present
             /\ downloads' # downloads => ~present]_vars
  /\ [](Processing =>
          \A d \in downloads : d.run = run => d \in resources_dir.files)

\* C5's case: a resource downloaded for one note is found present for a
\* later reference, in the second run.
C5_Witness ==
  /\ run = 2
  /\ \E k \in DOMAIN iter_log :
       /\ iter_log[k].result = "cached"
       /\ ResFile(iter_log[k].id, iter_log[k].ext, 2) \in downloads
       /\ ResFile(iter_log[k].id, iter_log[k].ext, 1) \in downloads

\* What C8 expects of a name: its extension, ".png" without one.
ExtensionOrPng(name) ==
  IF Splitext(name) = <<>> THEN PngExt ELSE Splitext(name)

\* C8 as stated: the extension comes from the metadata filename and is .png
\* whenever the filename is absent or has no extension, whatever the title.
C8_Original ==
  \A k \in DOMAIN iter_log :
    iter_log[k].result # "meta_failed" =>
      iter_log[k].ext = ExtensionOrPng(resources[iter_log[k].id].filename)

\* C8, amended: the local file is <resourceId><extension>, the extension that
\* of the metadata filename, or of the title when the filename is absent or
\* empty, and .png when that name has none.
C8_ExtensionFromFilenameOrTitle ==
  \A k \in DOMAIN iter_log :
    LET e == iter_log[k]
        meta == resources[e.id]
        expected == IF meta.filename # <<>> THEN ExtensionOrPng(meta.filename)
                    ELSE ExtensionOrPng(meta.title)
    IN e.result # "meta_failed" =>
         /\ e.ext = expected
         /\ Succeeded(e) => ResourceFilePresent(e.id, expected)
         /\ e.result = "downloaded" => ResFile(e.id, expected, run) \in downloads

\* C8's case: no filename, a title with an extension, the file downloaded.
C8_Witness ==
  \E k \in DOMAIN iter_log :
    /\ iter_log[k].result = "downloaded"
    /\ resources[iter_log[k].id].filename = <<>>
    /\ Splitext(resources[iter_log[k].id].title) # <<>>
    /\ ResourceFilePresent(iter_log[k].id, Splitext(resources[iter_log[k].id].title))

\* "ALL" in any letter case.
IsAllAnyCase(s) ==
  /\ Len(s) = 3
  /\ s[1] \in {"a", "A"}
  /\ s[2] \in {"l", "L"}
  /\ s[3] \in {"l", "L"}

\* SelectNotes has run in this run.
Selected ==
  \/ pc \in {"notebooks", "clean", "notes", "resources", "walk", "write"}
  \/ pc = "done" /\ outcome # "connect_error"

\* The notes were fetched in this run.
NotesFetched ==
  \/ pc \in {"notebooks", "clean", "notes", "resources", "walk", "write"}
  \/ pc = "done" /\ outcome \in {"no_notes", "notebooks_error", "clean_failed", "finished"}

TagsTitled(name) == {i \in DOMAIN UpstreamTags : UpstreamTags[i].title = name}

NotesTagged(ids) ==
  SelectSeq(upstream_notes, LAMBDA n : \E i \in ids : UpstreamTags[i].id \in n.tags)

\* The sentinel's half of C9: no tag is listed, every note is fetched.
NoTagFilter ==
  /\ "get_all_tags" \notin calls
  /\ "get_all_notes(tag_id)" \notin calls
  /\ NotesFetched => notes_to_process = upstream_notes

\* The other half: the tags are listed, the notes are those of the tag with
\* exactly that title, and without such a tag no notes are fetched.
TagFilter ==
  Selected =>
    /\ "get_all_tags" \in calls
    /\ "get_all_notes()" \notin calls
    /\ NotesFetched =>
         /\ TagsTitled(tag_arg) # {}
         /\ notes_to_process = NotesTagged(TagsTitled(tag_arg))
    /\ TagsTitled(tag_arg) = {} =>
         /\ outcome \in {"tag_not_found", "fetch_error"}
         /\ calls \cap NotesCalls = {}
    /\ outcome = "tag_not_found" => TagsTitled(tag_arg) = {}

\* C9 as stated: the sentinel in any case bypasses the tags; any other tag
\* name goes through the tag lookup.
C9_Original ==
  IF IsAllAnyCase(tag_arg) THEN NoTagFilter ELSE TagFilter

\* C9, amended: as stated for a non-empty tag name; an empty tag name is
\* handled like the sentinel.
C9_TagSelection ==
  IF IsAllAnyCase(tag_arg) \/ tag_arg = <<>> THEN NoTagFilter ELSE TagFilter

\* C9's case: "All" was given and every note has been fetched, tagged or not.
C9_Witness ==
  /\ tag_arg = <<"A", "l", "l">>
  /\ pc = "notes"
  /\ notes_to_process = upstream_notes
  /\ \E k \in DOMAIN upstream_notes : upstream_notes[k].tags = {}

RECURSIVE RootFirstPath(_, _, _)
RootFirstPath(map, id, fuel) ==
  IF fuel = 0 \/ id = NoId \/ id \notin DOMAIN map THEN <<>>
  ELSE Append(RootFirstPath(map, map[id].parent_id, fuel - 1), map[id].title)

\* No notebook is its own ancestor: every chain ends within NumNotebooks links.
NoCycle(map) ==
  \A id \in DOMAIN map : Len(RootFirstPath(map, id, NumNotebooks + 1)) <= NumNotebooks

StartNotebookId == notes_to_process[1].parent_id

\* C6: on a map without a cycle get_category_hierarchy returns, and what it
\* returns is the titles from the root down to the start notebook, up to the
\* first id that is empty or not in the map: one title for a root, none for
\* a start id the map does not hold.
C6_RootFirstPath ==
  NoCycle(notebooks_map) =>
    <>(/\ pc = "write"
       /\ categories = RootFirstPath(notebooks_map, StartNotebookId, NumNotebooks + 1)
       /\ (StartNotebookId \notin DOMAIN notebooks_map => categories = <<>>)
       /\ (/\ StartNotebookId \in DOMAIN notebooks_map
           /\ notebooks_map[StartNotebookId].parent_id = NoId)
          => categories = <<notebooks_map[StartNotebookId].title>>)

\* C6's case: a chain through every notebook, returned root first.
C6_Witness ==
  /\ pc = "write"
  /\ NoCycle(notebooks_map)
  /\ Len(categories) = NumNotebooks
  /\ categories[Len(categories)] = notebooks_map[StartNotebookId].title

\* C7: the derivation of the category path ends on every notebook map: on a
\* cycle it stops (MalformedHierarchy) at the first notebook it meets again,
\* so the loop never starts an iteration on a notebook it has already visited,
\* from where it would go round for ever.
C7_StopsAtRevisit ==
  (pc = "walk" /\ WalkCondition) =>
    notebooks_map[current_id].title \notin Range(categories)

====
